---- MODULE Spec2Model ----
(***************************************************************************)
(* Model of the repository-preview generation scripts of Catalog_of_Repos. *)
(* The repository holds five batch variants of the same pipeline; the      *)
(* variable `variant` says which script is running:                        *)
(*   "org"         src/generate_preview_script.js   (organization listing) *)
(*   "static"      src/unnamed/part_000             (TARGET_REPOS list)    *)
(*   "cred"        src/unnamed/part_001             (paginated /user/repos)*)
(*   "cloneapi"    src/unnamed/part_002:22-203      (listing + git clone)  *)
(*   "clonestatic" src/unnamed/part_002:290-444     (REPOSITORIES + clone) *)
(* The two single-page scripts of part_002 (lines 1-20 and 205-288) have   *)
(* no target list and are not modelled.                                    *)
(* One run of one script is one behaviour.  The outcome of every I/O call  *)
(* (HTTP request, fs.rm, fs.mkdir, puppeteer, git clone) is an input drawn *)
(* by the action that makes the call.                                      *)
(***************************************************************************)
EXTENDS Integers, Sequences, FiniteSets, TLC

VARIABLES
    variant,     \* which script is running
    token,       \* TRUE iff the credential environment variable is set
    pc,          \* position of main / runGenerator
    exitCode,    \* the status the process ends with (0 unless process.exit(1))
    cause,       \* why the process ended
    out,         \* the previews directory: [exists, files]
    clone,       \* the temp_clone / temp-clone directory: [exists, files]
    targets,     \* resolved sequence of repository records
    idx,         \* index of the next element of the running for..of loop
    results,     \* outcome of each target handled by the processing loop
    browser,     \* "none" (undefined), "open" or "closed"
    launches,    \* number of puppeteer.launch calls that returned a browser
    closes,      \* number of browser.close calls
    tokenChecks, \* number of times the credential was tested
    page,        \* page number of fetchRepositoryNames
    hasNextPage, \* loop flag of fetchRepositoryNames
    fetchFailed, \* TRUE iff a listing request of this run failed
    cleanupFailed, \* targets whose clone directory removal was logged as failed
    captured,    \* targets whose page.screenshot call returned
    rmMayFail,   \* TRUE iff fs.rm / rimraf can fail in this run's environment
    inFlight,    \* targets whose handler was called and has not returned yet
    written,     \* targets in the order their screenshot file was written
    pending,     \* TRUE iff the last listing response announced a further page
    expected,    \* names of the target organization's repositories served so far
    requested,   \* page numbers of the listing requests made so far
    card,        \* the record and the document of the latest generateHtmlContent call
    locale,      \* default locale of the Node process (from its environment)
    openPages,   \* pages of the browser opened by newPage and not closed since
    prior        \* what the previous run of the script in this directory left and did

vars == <<variant, token, pc, exitCode, cause, out, clone, targets, idx,
          results, browser, launches, closes, tokenChecks, page, hasNextPage,
          fetchFailed, cleanupFailed, captured, rmMayFail,
                   inFlight, written, pending, expected, requested, card, locale,
          openPages, prior>>

----------------------------------------------------------------------------
(* Bounds of the model *)

\* largest number of pages the provider splits a listing into
MaxPages == 2
\* largest number of repositories the provider returns on one page
MaxPerPage == 2
\* largest number of repositories a listing resolves to
MaxTargets == 2

----------------------------------------------------------------------------
(* Configuration of the scripts *)

TARGET_ORG == "DapaLMS1"
REPO_NAME == "Catalog_of_Repos"
TARGET_REPOS == <<"Repo-Example-1", "Repo-Example-2">>
REPOSITORIES == <<"repo-a-dashboard", "repo-b-analytics", "repo-c-reports">>

Variants == {"org", "static", "cred", "cloneapi", "clonestatic"}

\* JavaScript null / undefined
Null == "<null>"

\* path.join(OUTPUT_DIR, `${name}.png`)
OutputPath(name) == <<"previews", name, "png">>

\* a directory that does not exist
Absent == [exists |-> FALSE, files |-> {}]

\* the one timestamp of the model, also the time of the run
Now == "2024-01-31T10:00:00Z"

\* html_url of a repository
HtmlUrl(owner, name) == "https://github.com/" \o owner \o "/" \o name

\* repositories the metadata provider may list; a number of the JSON body
\* is kept as its decimal digits, and the second repository comes with
\* every optional field null or missing
ProviderRepos ==
    { [name |-> "r1", owner |-> TARGET_ORG, description |-> "d",
       language |-> "Go", stargazers_count |-> "42", forks_count |-> "3",
       updated_at |-> Now, html_url |-> HtmlUrl(TARGET_ORG, "r1")],
      [name |-> "r2", owner |-> TARGET_ORG, description |-> Null,
       language |-> Null, stargazers_count |-> Null, forks_count |-> Null,
       updated_at |-> Null, html_url |-> Null],
      [name |-> REPO_NAME, owner |-> TARGET_ORG, description |-> "catalog",
       language |-> "HTML", stargazers_count |-> "1", forks_count |-> "0",
       updated_at |-> Now, html_url |-> HtmlUrl(TARGET_ORG, REPO_NAME)],
      [name |-> "r1", owner |-> "other", description |-> "fork",
       language |-> "Go", stargazers_count |-> "0", forks_count |-> "0",
       updated_at |-> Now, html_url |-> HtmlUrl("other", "r1")] }

\* files a previous run may have left in previews
StaleFiles == {OutputPath("repo-a-dashboard")}
\* clone directories a previous crashed run may have left in temp_clone
StaleClones == {"repo-a-dashboard"}

\* sequences over S of length at most n
RECURSIVE SeqsUpTo(_, _)
SeqsUpTo(S, n) ==
    IF n = 0 THEN {<<>>}
    ELSE LET shorter == SeqsUpTo(S, n - 1)
         IN shorter \cup {Append(s, x) : s \in {t \in shorter : Len(t) = n - 1}, x \in S}

\* a page of a listing response
PageBodies == SeqsUpTo(ProviderRepos, MaxPerPage)

\* Array.prototype.map
Map(s, F(_)) == [k \in 1..Len(s) |-> F(s[k])]

----------------------------------------------------------------------------
(* Directory Manager *)

\* fs.rm(dirPath, {recursive: true, force: true}) / rimraf(dirPath):
\* the directory is gone when the call succeeds; when it fails the
\* directory is still there with the entries `kept` the call did not reach.
rm(dir, ok, kept) ==
    IF ok \/ ~dir.exists THEN Absent ELSE [exists |-> TRUE, files |-> kept]

\* the outcomes of a removal call in this run's environment
RmOutcomes == IF rmMayFail THEN BOOLEAN ELSE {TRUE}

\* removeDirectory: the error of fs.rm is logged and swallowed
removeDirectory(dir, ok, kept) == rm(dir, ok, kept)

\* fs.mkdir(dir, {recursive: true}) that succeeded: an existing directory
\* keeps its entries
mkdir(dir) == [exists |-> TRUE, files |-> dir.files]

----------------------------------------------------------------------------
(* Text *)

\* the default locales a Node process may be started with (LANG, LC_ALL)
Locales == {"en-US", "de-DE"}

\* the locale of a process whose script never reads it
DefaultLocale == "en-US"

\* scripts that format without a locale argument: toLocaleDateString in
\* generate_preview_script.js:71 and part_000:69,82, toLocaleString in
\* part_001:185
ReadsLocale(v) == v \in {"org", "static", "cred"}

\* a description that carries markup and is longer than the card shows
LongMarkup == "<i>xxxxxx & \"y\"</i>"

\* the characters of the strings whose characters matter to the renderer;
\* every other string of the model is free of markup and kept in one piece
Spelling ==
    LongMarkup :> <<"<", "i", ">", "x", "x", "x", "x", "x", "x", " ", "&", " ",
                    "\"", "y", "\"", "<", "/", "i", ">">>
    @@ "1234" :> <<"1", "2", "3", "4">>
    @@ "42" :> <<"4", "2">>

\* a string as the sequence of its pieces
Chars(s) == IF s \in DOMAIN Spelling THEN Spelling[s] ELSE <<s>>

\* `${value}` in a template literal: String(value); a missing field reads
\* as undefined
Str(v) == IF v = Null THEN <<"undefined">> ELSE Chars(v)

\* new Date(value).toLocaleDateString() in a process of locale loc; a
\* missing value gives the Invalid Date object
toLocaleDateString(value, loc) ==
    IF value = Null THEN "Invalid Date"
    ELSE IF loc = "de-DE" THEN "31" \o "." \o "1" \o "." \o "2024"
    ELSE "1" \o "/" \o "31" \o "/" \o "2024"

\* the group separator of number formatting in a locale
GroupSeparator(loc) == IF loc = "de-DE" THEN "." ELSE ","

\* Number.prototype.toLocaleString() in a process of locale loc: the
\* digits in groups of three
RECURSIVE toLocaleString(_, _)
toLocaleString(digits, loc) ==
    IF Len(digits) <= 3 THEN digits
    ELSE toLocaleString(SubSeq(digits, 1, Len(digits) - 3), loc)
         \o <<GroupSeparator(loc)>>
         \o SubSeq(digits, Len(digits) - 2, Len(digits))

\* String.prototype.replace(/from/g, to)
Replace(text, from, to) ==
    [k \in 1..Len(text) |-> IF text[k] = from THEN to ELSE text[k]]

\* the texts of a sequence of parts, joined
RECURSIVE Join(_)
Join(parts) ==
    IF parts = <<>> THEN <<>> ELSE Head(parts).text \o Join(Tail(parts))

----------------------------------------------------------------------------
(* Card Renderer *)

THUMBNAIL_WIDTH == 1200
THUMBNAIL_HEIGHT == 630

\* a piece of the template literal itself
Tpl(text) == [field |-> "template", text |-> <<text>>]

\* an interpolation ${...} of the template literal
Interp(field, text) == [field |-> field, text |-> text]

\* the languageColor lookup of generate_preview_script.js:91-98
LanguageColors ==
    "JavaScript" :> "text-yellow-400" @@ "TypeScript" :> "text-blue-500"
    @@ "Python" :> "text-green-500" @@ "HTML" :> "text-red-500"
    @@ "CSS" :> "text-indigo-500" @@ "N/A" :> "text-gray-400"

languageColor(language) ==
    IF language \in DOMAIN LanguageColors THEN LanguageColors[language]
    ELSE "text-gray-400"

\* the template literal of generateHtmlContent(repoData),
\* generate_preview_script.js:100-162 and part_000:111-173, part by part
CardParts(repoData) ==
    << Tpl("<!DOCTYPE html><html lang=\"en\"><head>...<title>"),
       Interp("name", Str(repoData.name)),
       Tpl(" Preview</title><script src=\"https://cdn.tailwindcss.com\"></script><style>body { width: "),
       Interp("width", <<ToString(THUMBNAIL_WIDTH)>>),
       Tpl("px; height: "),
       Interp("height", <<ToString(THUMBNAIL_HEIGHT)>>),
       Tpl("px; ... }</style></head><body ...><div ...><h1 class=\"text-6xl font-extrabold text-white\">"),
       Interp("name", Str(repoData.name)),
       Tpl("</h1><div class=\"text-xl text-gray-500 font-mono\">"),
       Interp("org", <<TARGET_ORG>>),
       Tpl("</div></div><p class=\"text-3xl text-gray-300 my-4 line-clamp-2\">"),
       Interp("description", Str(repoData.description)),
       Tpl("</p>...<span ...>LANGUAGE</span><span class=\"text-2xl font-bold "),
       Interp("color", <<languageColor(repoData.language)>>),
       Tpl("\">"),
       Interp("language", Str(repoData.language)),
       Tpl("</span>...<span ...>STARS</span><span class=\"text-3xl font-bold text-yellow-300\">"),
       Interp("stars", Str(repoData.stars)),
       Tpl("</span>...<span ...>FORKS</span><span class=\"text-3xl font-bold text-gray-300\">"),
       Interp("forks", Str(repoData.forks)),
       Tpl("</span></div></div></div></div></body></html>") >>

\* generateHtmlContent(repoData) of generate_preview_script.js:89-163 and
\* part_000:100-174
generateHtmlContent(repoData) == Join(CardParts(repoData))

\* `a || b`: b when a is null, undefined, the empty string or 0
OrElse(a, b) == IF a \in {Null, "", "0"} THEN b ELSE a

\* the template literal of generateHtmlContent(details), part_001:135-191,
\* with the fallbacks of part_001:130-133
DetailsParts(details, loc) ==
    LET repoName == OrElse(details.name, "Unknown Repository")
        description == OrElse(details.description, "A project hosted on GitHub.")
        language == OrElse(details.language, "Mixed")
        stars == OrElse(details.stargazers_count, "0") IN
    << Tpl("<!DOCTYPE html><html lang=\"en\"><head>...<title>"),
       Interp("name", Str(repoName)),
       Tpl(" Social Card</title>...<style>... width: 1200px; height: 630px; ...</style></head><body ...><div ...><div><h1 ...>"),
       Interp("name", Replace(Str(repoName), "-", " ")),
       Tpl("</h1><p class=\"text-2xl text-gray-300 mt-4 h-20 overflow-hidden\">"),
       Interp("description", Str(description)),
       Tpl("</p></div>...<span class=\"font-semibold ... rounded-full shadow-lg\">"),
       Interp("language", Str(language)),
       Tpl("</span><span class=\"text-gray-500\">\\u25CF "),
       Interp("org", <<TARGET_ORG>>),
       Tpl("</span></div><div ...><svg ...><path d=\"M9.049 2.927c...\"></path></svg>"),
       Interp("stars", toLocaleString(Str(stars), loc)),
       Tpl("</div></div></div></body></html>") >>

\* generateHtmlContent(details) of part_001:128-192, called in a process
\* of locale loc
generateHtmlContentDetails(details, loc) == Join(DetailsParts(details, loc))

\* the parts of the document the running script renders for a record
RenderParts(v, record, loc) ==
    IF v = "cred" THEN DetailsParts(record, loc) ELSE CardParts(record)

\* no generateHtmlContent call has been made yet
NoCard == [record |-> [name |-> Null], document |-> <<>>]

----------------------------------------------------------------------------
(* Process exit *)

\* process.exit(code): the process ends at once, pending finally blocks
\* do not run
Exit(code, why) ==
    /\ pc' = "exited"
    /\ exitCode' = code
    /\ cause' = why

\* the record of a first run: no run of the script came before it
NoPrior == [run |-> 1, files |-> {}, targets |-> <<>>, results |-> <<>>,
            captured |-> {}, cause |-> "none"]

\* scripts that touch CLONE_DIR / TEMP_DIR; part_001 defines the constant
\* (part_001:10) and never uses it
UsesCloneDir(v) == v # "cred"

Init ==
    /\ variant \in Variants
    /\ token \in BOOLEAN
    /\ pc = IF variant = "clonestatic" THEN "setup" ELSE "start"
    /\ exitCode = 0
    /\ cause = "none"
    /\ out \in {Absent} \cup {[exists |-> TRUE, files |-> f] : f \in SUBSET StaleFiles}
    /\ clone \in IF UsesCloneDir(variant)
                 THEN {Absent} \cup {[exists |-> TRUE, files |-> f] : f \in SUBSET StaleClones}
                 ELSE {Absent}
    /\ targets = <<>>
    /\ idx = 1
    /\ results = <<>>
    /\ browser = "none"
    /\ launches = 0
    /\ closes = 0
    /\ tokenChecks = 0
    /\ page = 1
    /\ hasNextPage = TRUE
    /\ fetchFailed = FALSE
    /\ cleanupFailed = {}
    /\ captured = {}
    /\ rmMayFail \in BOOLEAN
    /\ inFlight = {}
    /\ written = <<>>
    /\ pending = FALSE
    /\ expected = <<>>
    /\ requested = <<>>
    /\ card = NoCard
    /\ locale \in IF ReadsLocale(variant) THEN Locales ELSE {DefaultLocale}
    /\ openPages = 0
    /\ prior = NoPrior

----------------------------------------------------------------------------
(* Startup: the credential check of main *)

\* variants whose main ends the process when the credential is missing
\* (generate_preview_script.js:215, part_000:224, part_001:243); the
\* clone-and-screenshot main (part_002:151) only warns
TokenRequired(v) == v \in {"org", "static", "cred"}

\* main, from its first line to the try block
CheckToken ==
    /\ pc = "start"
    /\ tokenChecks' = tokenChecks + 1
    /\ IF ~token /\ TokenRequired(variant)
       THEN Exit(1, "credential")
       ELSE /\ pc' = "setup"
            /\ UNCHANGED <<exitCode, cause>>
    /\ UNCHANGED <<variant, token, out, clone, targets, idx, results, browser,
                   launches, closes, page, hasNextPage, fetchFailed,
                   cleanupFailed, captured, rmMayFail,
                   inFlight, written, pending, expected, requested, card, locale,
                   openPages, prior>>

----------------------------------------------------------------------------
(* Setup: clearing the directories *)

\* generate_preview_script.js:224 and part_000:232 remove CLONE_DIR before
\* the run; part_001 has no such call
RemovesCloneAtSetup(v) == v \in {"org", "static"}

\* main of the API variants: removeDirectory(CLONE_DIR);
\* removeDirectory(OUTPUT_DIR); fs.mkdir(OUTPUT_DIR).  Only fs.mkdir can
\* throw, which main's catch turns into process.exit(1).
Setup ==
    /\ pc = "setup"
    /\ variant \in {"org", "static", "cred"}
    /\ \E okClone \in RmOutcomes, keptClone \in SUBSET clone.files,
          okOut \in RmOutcomes, keptOut \in SUBSET out.files, okMkdir \in BOOLEAN :
          LET cleared == removeDirectory(out, okOut, keptOut) IN
          /\ clone' = IF RemovesCloneAtSetup(variant)
                      THEN removeDirectory(clone, okClone, keptClone)
                      ELSE clone
          /\ IF okMkdir
             THEN /\ out' = mkdir(cleared)
                  /\ pc' = "resolve"
                  /\ UNCHANGED <<exitCode, cause>>
             ELSE /\ out' = cleared
                  /\ Exit(1, "setup")
    /\ UNCHANGED <<variant, token, targets, idx, results, browser, launches,
                   closes, tokenChecks, page, hasNextPage, fetchFailed,
                   cleanupFailed, captured, rmMayFail,
                   inFlight, written, pending, expected, requested, card, locale,
                   openPages, prior>>

\* main of part_002:155-161: rimraf(CLONE_DIR); rimraf(OUTPUT_DIR);
\* fs.mkdir(OUTPUT_DIR).  Each call can throw into main's catch.
SetupClone ==
    /\ pc = "setup"
    /\ variant = "cloneapi"
    /\ \E okClone \in RmOutcomes, keptClone \in SUBSET clone.files,
          okOut \in RmOutcomes, keptOut \in SUBSET out.files, okMkdir \in BOOLEAN :
          LET clone1 == rm(clone, okClone, keptClone)
              out1 == rm(out, okOut, keptOut) IN
          IF clone1.exists
          THEN /\ clone' = clone1
               /\ out' = out
               /\ Exit(1, "setup")
          ELSE IF out1.exists \/ ~okMkdir
          THEN /\ clone' = clone1
               /\ out' = out1
               /\ Exit(1, "setup")
          ELSE /\ clone' = clone1
               /\ out' = mkdir(out1)
               /\ pc' = "resolve"
               /\ UNCHANGED <<exitCode, cause>>
    /\ UNCHANGED <<variant, token, targets, idx, results, browser, launches,
                   closes, tokenChecks, page, hasNextPage, fetchFailed,
                   cleanupFailed, captured, rmMayFail,
                   inFlight, written, pending, expected, requested, card, locale,
                   openPages, prior>>

\* runGenerator, part_002:407-412: the output directory is created when it
\* does not exist and left as it is otherwise; the targets are the
\* configured REPOSITORIES
SetupStaticClone ==
    /\ pc = "setup"
    /\ variant = "clonestatic"
    /\ \E okMkdir \in BOOLEAN :
          IF out.exists
          THEN /\ out' = out
               /\ pc' = "launch"
               /\ UNCHANGED <<exitCode, cause>>
          ELSE IF okMkdir
          THEN /\ out' = mkdir(out)
               /\ pc' = "launch"
               /\ UNCHANGED <<exitCode, cause>>
          ELSE /\ out' = out
               /\ Exit(1, "setup")
    /\ targets' = Map(REPOSITORIES, LAMBDA n : [name |-> n])
    /\ UNCHANGED <<variant, token, clone, idx, results, browser, launches,
                   closes, tokenChecks, page, hasNextPage, fetchFailed,
                   cleanupFailed, captured, rmMayFail,
                   inFlight, written, pending, expected, requested, card, locale,
                   openPages, prior>>

----------------------------------------------------------------------------
(* Target Resolver *)

\* what a listing request can end in: fetch throws (transport failure), a
\* non-success status, or a page of repositories with or without a
\* rel="next" link header
ListResponses ==
    {[thrown |-> TRUE, ok |-> FALSE, body |-> <<>>, next |-> FALSE],
     [thrown |-> FALSE, ok |-> FALSE, body |-> <<>>, next |-> FALSE]}
    \cup {[thrown |-> FALSE, ok |-> TRUE, body |-> b, next |-> n] :
              b \in PageBodies, n \in BOOLEAN}

\* the request ended in the catch block of the resolver
ListFailed(resp) == resp.thrown \/ ~resp.ok

\* the repoData record built at generate_preview_script.js:65-73 and
\* part_000:75-83
RepoData(repo) ==
    [name |-> repo.name,
     description |-> IF repo.description = Null THEN "No description provided."
                     ELSE repo.description,
     language |-> IF repo.language = Null THEN "N/A" ELSE repo.language,
     stars |-> repo.stargazers_count,
     forks |-> repo.forks_count,
     updated_at |-> toLocaleDateString(repo.updated_at, locale),
     html_url |-> repo.html_url]

\* fetchRepositories of generate_preview_script.js: one request, the
\* catalog's own repository filtered out, [] on any failure
fetchRepositories(resp) ==
    IF ListFailed(resp) THEN <<>>
    ELSE Map(SelectSeq(resp.body, LAMBDA repo : repo.name # REPO_NAME), RepoData)

\* fetchRepositories of part_002:41-74: one request, names only, no filter
fetchRepositoriesClone(resp) ==
    IF ListFailed(resp) THEN <<>>
    ELSE Map(resp.body, LAMBDA repo : [name |-> repo.name])

\* a page filter that lets the repositories of every owner through
PageNamesAnyOwner(body) ==
    Map(SelectSeq(body, LAMBDA repo : repo.name # "Catalog_of_Repos"),
        LAMBDA repo : [name |-> repo.name])

\* the names one page contributes in fetchRepositoryNames (part_001:76-81)
PageNames(body) ==
    Map(SelectSeq(SelectSeq(body, LAMBDA repo : repo.owner = TARGET_ORG),
                  LAMBDA repo : repo.name # "Catalog_of_Repos"),
        LAMBDA repo : [name |-> repo.name])

\* a main without the length check: the launch follows every resolution
AfterResolveAlwaysLaunch(list) == "launch"

\* main after the resolver returned: `if (length === 0) return;` leads to
\* the finally block, anything else to the browser launch
AfterResolve(list) == IF Len(list) = 0 THEN "finally" ELSE "launch"

\* main of generate_preview_script.js:229-233 and of part_002:164-168
Resolve ==
    /\ pc = "resolve"
    /\ variant \in {"org", "cloneapi"}
    /\ \E resp \in ListResponses :
          LET list == IF variant = "org" THEN fetchRepositories(resp)
                      ELSE fetchRepositoriesClone(resp) IN
          /\ Len(list) <= MaxTargets
          /\ targets' = list
          /\ fetchFailed' = ListFailed(resp)
          /\ pending' = (~ListFailed(resp) /\ resp.next)
          /\ pc' = AfterResolve(list)
    /\ requested' = Append(requested, page)
    /\ UNCHANGED <<variant, token, exitCode, cause, out, clone, idx, results,
                   browser, launches, closes, tokenChecks, page, hasNextPage,
                   cleanupFailed, captured, rmMayFail,
                   inFlight, written, expected, card, locale,
                   openPages, prior>>

\* the names a page of /user/repos holds of repositories owned by the
\* target organization, the catalog itself left out, in the order of the page
RECURSIVE OwnedNames(_)
OwnedNames(body) ==
    IF body = <<>> THEN <<>>
    ELSE LET repo == Head(body) IN
         IF repo.owner = TARGET_ORG /\ repo.name # REPO_NAME
         THEN <<[name |-> repo.name]>> \o OwnedNames(Tail(body))
         ELSE OwnedNames(Tail(body))

\* a catch block that throws the collected names away
fetchRepositoryNamesCatchEmpty(allRepoNames) == <<>>

\* the catch block of fetchRepositoryNames (part_001:86-90): it logs, ends
\* the pagination and leaves allRepoNames as it is
fetchRepositoryNamesCatch(allRepoNames) == allRepoNames

\* one iteration of the while loop of fetchRepositoryNames (part_001:51-91);
\* the first one follows the function's own credential check, the last one
\* is followed by the return and by main's length check (part_001:257-261)
FetchPage ==
    /\ pc = "resolve"
    /\ variant = "cred"
    /\ hasNextPage
    /\ tokenChecks' = IF page = 1 THEN tokenChecks + 1 ELSE tokenChecks
    /\ \E resp \in ListResponses :
          /\ page = MaxPages => ~resp.next
          /\ LET list == IF ListFailed(resp)
                         THEN fetchRepositoryNamesCatch(targets)
                         ELSE targets \o PageNames(resp.body)
                 more == ~ListFailed(resp) /\ resp.next IN
             /\ Len(list) <= MaxTargets
             /\ targets' = list
             /\ hasNextPage' = more
             /\ page' = IF ListFailed(resp) THEN page ELSE page + 1
             /\ fetchFailed' = ListFailed(resp)
             /\ pending' = IF ListFailed(resp) THEN pending ELSE resp.next
             /\ expected' = IF ListFailed(resp) THEN expected
                            ELSE expected \o OwnedNames(resp.body)
             /\ pc' = IF more THEN "resolve" ELSE AfterResolve(list)
    /\ requested' = Append(requested, page)
    /\ UNCHANGED <<variant, token, exitCode, cause, out, clone, idx, results,
                   browser, launches, closes,
                   cleanupFailed, captured, rmMayFail,
                   inFlight, written, card, locale,
                   openPages, prior>>

----------------------------------------------------------------------------
(* Metadata Fetcher *)

\* the bodies of a successful repository-details response: a complete
\* one, one without description, one with a long description that carries
\* markup and a four-digit star count, one with every optional field null
\* or missing
DetailBodies(repoName) ==
    {[name |-> repoName, owner |-> TARGET_ORG, description |-> d,
      language |-> "Go", stargazers_count |-> "42", forks_count |-> "3",
      updated_at |-> Now, html_url |-> HtmlUrl(TARGET_ORG, repoName)] :
         d \in {"d", Null}}
    \cup {[name |-> repoName, owner |-> TARGET_ORG, description |-> LongMarkup,
           language |-> "Go", stargazers_count |-> "1234", forks_count |-> "3",
           updated_at |-> Now, html_url |-> HtmlUrl(TARGET_ORG, repoName)],
          [name |-> repoName, owner |-> TARGET_ORG, description |-> Null,
           language |-> Null, stargazers_count |-> Null, forks_count |-> Null,
           updated_at |-> Null, html_url |-> Null]}

\* what a repository-details request can end in
DetailResponses(repoName) ==
    {[thrown |-> TRUE, ok |-> FALSE, body |-> Null],
     [thrown |-> FALSE, ok |-> FALSE, body |-> Null]}
    \cup {[thrown |-> FALSE, ok |-> TRUE, body |-> b] : b \in DetailBodies(repoName)}

\* the `null` a fetcher returns from its catch block
NoData == [isNull |-> TRUE]

\* the record returned at part_000:63-71 for a non-success status
Placeholder(repoName) ==
    [name |-> repoName,
     description |-> "Could not fetch description from GitHub API.",
     language |-> "Unknown",
     stars |-> "0",
     forks |-> "0",
     updated_at |-> toLocaleDateString(Now, locale),
     html_url |-> HtmlUrl(TARGET_ORG, repoName)]

\* fetchRepositoryDetails of part_000:48-90
fetchRepositoryDetails(repoName, resp) ==
    IF resp.thrown THEN NoData
    ELSE IF ~resp.ok THEN Placeholder(repoName)
    ELSE RepoData(resp.body)

\* fetchRepoDetails of part_001:102-121: a non-success status is thrown
\* into the function's own catch, which returns null
fetchRepoDetails(repoName, resp) ==
    IF resp.thrown \/ ~resp.ok THEN NoData
    ELSE resp.body

\* one iteration of the fetch loop of part_000:240-245; the last one is
\* followed by main's length check (part_000:247-250)
FetchDetails ==
    /\ pc = "resolve"
    /\ variant = "static"
    /\ idx <= Len(TARGET_REPOS)
    /\ \E resp \in DetailResponses(TARGET_REPOS[idx]) :
          LET data == fetchRepositoryDetails(TARGET_REPOS[idx], resp)
              list == IF data # NoData THEN Append(targets, data) ELSE targets IN
          /\ targets' = list
          /\ fetchFailed' = (fetchFailed \/ resp.thrown \/ ~resp.ok)
          /\ IF idx = Len(TARGET_REPOS)
             THEN /\ idx' = 1
                  /\ pc' = AfterResolve(list)
             ELSE /\ idx' = idx + 1
                  /\ pc' = "resolve"
    /\ UNCHANGED <<variant, token, exitCode, cause, out, clone, results,
                   browser, launches, closes, tokenChecks, page, hasNextPage,
                   cleanupFailed, captured, rmMayFail,
                   inFlight, written, pending, expected, requested, card, locale,
                   openPages, prior>>

----------------------------------------------------------------------------
(* Engine launch *)

\* puppeteer.launch: a failure is thrown into the catch of main /
\* runGenerator, which calls process.exit(1)
Launch ==
    /\ pc = "launch"
    /\ \E ok \in BOOLEAN :
          IF ok
          THEN /\ browser' = "open"
               /\ launches' = launches + 1
               /\ pc' = "loop"
               /\ UNCHANGED <<exitCode, cause>>
          ELSE /\ Exit(1, "launch")
               /\ UNCHANGED <<browser, launches>>
    /\ idx' = 1
    /\ UNCHANGED <<variant, token, out, clone, targets, results, closes,
                   tokenChecks, page, hasNextPage, fetchFailed,
                   cleanupFailed, captured, rmMayFail,
                   inFlight, written, pending, expected, requested, card, locale,
                   openPages, prior>>

----------------------------------------------------------------------------
(* Capture Engine: the per-target handlers *)

\* position of x in the sequence s (0 when absent)
Pos(s, x) == IF \E k \in 1..Len(s) : s[k] = x
             THEN CHOOSE k \in 1..Len(s) : s[k] = x
             ELSE 0

\* the awaited calls inside the try block of generatePreviewCard
\* (generate_preview_script.js:178-199, part_000:188-209) and of
\* processRepository (part_001:204-226), in order
CardSteps == <<"newPage", "setViewport", "setContent", "screenshot", "close">>

\* the calls inside the try block of processRepository (part_002:98-134)
CloneSteps == <<"clone", "newPage", "setViewport", "goto", "title",
                "screenshot", "close">>

\* the calls inside the try block of generateThumbnail (part_002:343-388)
ThumbSteps == <<"mkdirSync", "clone", "newPage", "setViewport", "goto",
                "title", "screenshot", "close">>

\* the call named `step` returned, given that `fail` is the call that throws
Passed(steps, fail, step) == fail = "none" \/ Pos(steps, fail) > Pos(steps, step)

\* the page of a handler is still open when the handler returns: newPage
\* returned and a later call of the try block threw, so that the
\* page.close() at the end of the try block did not run or did not return
\* (generate_preview_script.js:178-205, part_001:203-232, part_002:111-138,
\* part_002:350-391: no catch and no finally block closes the page)
PageLeft(steps, fail) == fail # "none" /\ Passed(steps, fail, "newPage")

\* a handler whose catch block throws the error on to its caller
CaughtRethrows(fail) == [result |-> IF fail = "none" THEN "ok" ELSE "failed",
                         rethrown |-> fail # "none"]

\* outcome of a handler whose call `fail` throws: every handler catches the
\* error of its own try block and returns normally
Caught(fail) == [result |-> IF fail = "none" THEN "ok" ELSE "failed",
                 rethrown |-> FALSE]

\* a loop that calls the next handler while earlier ones are still running
LoopReadyNoAwait(flying) == TRUE

\* `await` in the body of the for...of loop: the loop goes on to its next
\* element only when the promise of the handler it called has settled
LoopReady(flying) == flying = {}

\* the loop of main / runGenerator takes its next element and calls the
\* handler with it (generate_preview_script.js:247-250, part_000:264-267,
\* part_001:275-285, part_002:178-181, part_002:420-423)
CallHandler ==
    /\ pc = "loop"
    /\ LoopReady(inFlight)
    /\ LET k == idx + Cardinality(inFlight) IN
          /\ k <= Len(targets)
          /\ inFlight' = inFlight \cup {k}
    /\ UNCHANGED <<variant, token, pc, exitCode, cause, out, clone, targets, idx,
                   results, browser, launches, closes, tokenChecks, page,
                   hasNextPage, fetchFailed, cleanupFailed, captured,
                   rmMayFail, written, pending, expected, requested, card, locale,
                   openPages, prior>>

\* generatePreviewCard(repoData, browser) and processRepository(repoName,
\* details, browser) of part_001: the screenshot writes <name>.png
generatePreviewCard(name, fail, files) ==
    [files |-> IF Passed(CardSteps, fail, "screenshot")
               THEN files \cup {OutputPath(name)} ELSE files,
     captured |-> Passed(CardSteps, fail, "screenshot"),
     rendered |-> Passed(CardSteps, fail, "setViewport"),
     leaked |-> PageLeft(CardSteps, fail),
     result |-> Caught(fail).result,
     rethrown |-> Caught(fail).rethrown]

\* one iteration of the processing loop of generate_preview_script.js:248
\* and part_000:265
ProcessCard ==
    /\ pc = "loop"
    /\ variant \in {"org", "static"}
    /\ idx <= Len(targets)
    /\ idx \in inFlight
    /\ \E fail \in {"none"} \cup {CardSteps[k] : k \in 1..Len(CardSteps)} :
          LET r == generatePreviewCard(targets[idx].name, fail, out.files) IN
          /\ out' = [out EXCEPT !.files = r.files]
          /\ results' = Append(results, r.result)
          /\ inFlight' = inFlight \ {idx}
          /\ openPages' = openPages + (IF r.leaked THEN 1 ELSE 0)
          /\ captured' = IF r.captured THEN captured \cup {idx} ELSE captured
          /\ written' = IF r.captured THEN Append(written, idx) ELSE written
          /\ card' = IF r.rendered
                     THEN [record |-> targets[idx],
                           document |-> generateHtmlContent(targets[idx])]
                     ELSE card
          /\ IF r.rethrown
             THEN /\ Exit(1, "loop")
                  /\ idx' = idx
             ELSE /\ idx' = idx + 1
                  /\ pc' = IF idx = Len(targets) THEN "finally" ELSE "loop"
                  /\ UNCHANGED <<exitCode, cause>>
    /\ UNCHANGED <<variant, token, clone, targets, browser, launches, closes,
                   tokenChecks, page, hasNextPage, fetchFailed,
                   cleanupFailed, rmMayFail,
                   pending, expected, requested, locale, prior>>

\* one iteration of the processing loop of part_001:276-285: the details
\* are fetched first and a target without details is skipped
ProcessCred ==
    /\ pc = "loop"
    /\ variant = "cred"
    /\ idx <= Len(targets)
    /\ idx \in inFlight
    /\ \E resp \in DetailResponses(targets[idx].name),
          fail \in {"none"} \cup {CardSteps[k] : k \in 1..Len(CardSteps)} :
          LET details == fetchRepoDetails(targets[idx].name, resp)
              r == IF details = NoData
                   THEN [files |-> out.files, captured |-> FALSE,
                         rendered |-> FALSE, leaked |-> FALSE,
                         result |-> "skipped", rethrown |-> FALSE]
                   ELSE generatePreviewCard(targets[idx].name, fail, out.files) IN
          \* no capture call is made for a skipped target
          /\ details = NoData => fail = "none"
          /\ out' = [out EXCEPT !.files = r.files]
          /\ results' = Append(results, r.result)
          /\ inFlight' = inFlight \ {idx}
          /\ openPages' = openPages + (IF r.leaked THEN 1 ELSE 0)
          /\ captured' = IF r.captured THEN captured \cup {idx} ELSE captured
          /\ written' = IF r.captured THEN Append(written, idx) ELSE written
          /\ card' = IF r.rendered
                     THEN [record |-> details,
                           document |-> generateHtmlContentDetails(details, locale)]
                     ELSE card
          /\ IF r.rethrown
             THEN /\ Exit(1, "loop")
                  /\ idx' = idx
             ELSE /\ idx' = idx + 1
                  /\ pc' = IF idx = Len(targets) THEN "finally" ELSE "loop"
                  /\ UNCHANGED <<exitCode, cause>>
    /\ UNCHANGED <<variant, token, clone, targets, browser, launches, closes,
                   tokenChecks, page, hasNextPage, fetchFailed,
                   cleanupFailed, rmMayFail,
                   pending, expected, requested, locale, prior>>

\* processRepository(repoName, browser) of part_002:82-142: git clone into
\* CLONE_DIR/<repoName> (refused when that directory is already there),
\* return when index.html is missing, screenshot; the finally block is
\* empty, the clone is left for main
processRepository(name, fail, hasIndex, files, dir) ==
    LET cloneFail == IF name \in dir.files THEN "clone" ELSE fail
        cloned == Passed(CloneSteps, cloneFail, "clone") IN
    [clone |-> IF cloned THEN [exists |-> TRUE, files |-> dir.files \cup {name}]
               ELSE dir,
     files |-> IF hasIndex /\ Passed(CloneSteps, cloneFail, "screenshot")
               THEN files \cup {OutputPath(name)} ELSE files,
     captured |-> hasIndex /\ Passed(CloneSteps, cloneFail, "screenshot"),
     \* the index.html test comes before newPage
     leaked |-> hasIndex /\ PageLeft(CloneSteps, cloneFail),
     result |-> IF cloned /\ ~hasIndex THEN "skipped" ELSE Caught(cloneFail).result,
     rethrown |-> Caught(cloneFail).rethrown]

\* one iteration of the processing loop of part_002:179-181
ProcessClone ==
    /\ pc = "loop"
    /\ variant = "cloneapi"
    /\ idx <= Len(targets)
    /\ idx \in inFlight
    /\ \E fail \in {"none"} \cup {CloneSteps[k] : k \in 1..Len(CloneSteps)},
          hasIndex \in BOOLEAN :
          LET r == processRepository(targets[idx].name, fail, hasIndex,
                                     out.files, clone) IN
          /\ out' = [out EXCEPT !.files = r.files]
          /\ clone' = r.clone
          /\ results' = Append(results, r.result)
          /\ inFlight' = inFlight \ {idx}
          /\ openPages' = openPages + (IF r.leaked THEN 1 ELSE 0)
          /\ captured' = IF r.captured THEN captured \cup {idx} ELSE captured
          /\ written' = IF r.captured THEN Append(written, idx) ELSE written
          /\ IF r.rethrown
             THEN /\ Exit(1, "loop")
                  /\ idx' = idx
             ELSE /\ idx' = idx + 1
                  /\ pc' = IF idx = Len(targets) THEN "finally" ELSE "loop"
                  /\ UNCHANGED <<exitCode, cause>>
    /\ UNCHANGED <<variant, token, targets, browser, launches, closes,
                   tokenChecks, page, hasNextPage, fetchFailed,
                   cleanupFailed, rmMayFail,
                   pending, expected, requested, card, locale, prior>>

\* the scripts whose handler clones the target with simple-git
Clones(v) == v \in {"cloneapi", "clonestatic"}

\* `await git.clone(...)` of part_002:98 and part_002:347 when the remote
\* accepts the connection and then sends nothing: simpleGit() is built
\* without a timeout option and the call carries none (the only timeouts
\* of the scripts are on setContent, goto and launch), so the git child
\* process stays and the promise never settles; the handler, and the loop
\* awaiting it, stay where they are.  git has created the target
\* directory by then.
CloneNeverReturns ==
    /\ pc = "loop"
    /\ Clones(variant)
    /\ idx \in inFlight
    /\ variant = "clonestatic" => token
    /\ targets[idx].name \notin clone.files
    /\ clone' = [exists |-> TRUE, files |-> clone.files \cup {targets[idx].name}]
    /\ pc' = "hung"
    /\ tokenChecks' = IF variant = "clonestatic" THEN tokenChecks + 1
                      ELSE tokenChecks
    /\ UNCHANGED <<variant, token, exitCode, cause, out, targets, idx, results,
                   browser, launches, closes, page, hasNextPage, fetchFailed,
                   cleanupFailed, captured, rmMayFail,
                   inFlight, written, pending, expected, requested, card, locale,
                   openPages, prior>>

\* a finally block that leaves the clone where it is
CleanupTargetSkipped(dir, name, rmOk) == dir

\* the finally block of generateThumbnail (part_002:392-402):
\* rimraf(TEMP_DIR), its error logged and swallowed
CleanupTarget(dir, name, rmOk) ==
    IF rmOk THEN [dir EXCEPT !.files = dir.files \ {name}] ELSE dir

\* generateThumbnail(repoName, browser) of part_002:321-403: return at once
\* without the credential; otherwise create temp-clone, clone, open the
\* page, close it and return when index.html is missing, screenshot; the
\* finally block removes the clone
generateThumbnail(name, tok, fail, hasIndex, rmOk, files, dir) ==
    IF ~tok
    THEN [clone |-> dir, files |-> files, captured |-> FALSE,
          leaked |-> FALSE, result |-> "skipped", rethrown |-> FALSE]
    ELSE
    LET cloneFail == IF name \in dir.files /\ Passed(ThumbSteps, fail, "mkdirSync")
                     THEN "clone" ELSE fail
        made == IF Passed(ThumbSteps, cloneFail, "mkdirSync")
                THEN [exists |-> TRUE, files |-> dir.files] ELSE dir
        cloned == IF Passed(ThumbSteps, cloneFail, "clone")
                  THEN [made EXCEPT !.files = made.files \cup {name}] ELSE made
        \* the index.html test follows newPage and setViewport; on a
        \* missing file the page is closed and the function returns
        noIndex == Passed(ThumbSteps, cloneFail, "setViewport") /\ ~hasIndex IN
    [clone |-> CleanupTarget(cloned, name, rmOk),
     files |-> IF hasIndex /\ Passed(ThumbSteps, cloneFail, "screenshot")
               THEN files \cup {OutputPath(name)} ELSE files,
     captured |-> hasIndex /\ Passed(ThumbSteps, cloneFail, "screenshot"),
     leaked |-> IF noIndex THEN cloneFail = "close"
                ELSE PageLeft(ThumbSteps, cloneFail),
     result |-> IF noIndex /\ cloneFail # "close" THEN "skipped"
                ELSE Caught(cloneFail).result,
     rethrown |-> Caught(cloneFail).rethrown]

\* one iteration of the processing loop of runGenerator (part_002:421-423)
ProcessThumbnail ==
    /\ pc = "loop"
    /\ variant = "clonestatic"
    /\ idx <= Len(targets)
    /\ idx \in inFlight
    /\ tokenChecks' = tokenChecks + 1
    /\ \E fail \in {"none"} \cup {ThumbSteps[k] : k \in 1..Len(ThumbSteps)},
          hasIndex \in BOOLEAN, rmOk \in RmOutcomes :
          \* fs.mkdirSync is only called when temp-clone does not exist
          /\ fail = "mkdirSync" => ~clone.exists
          /\ LET r == generateThumbnail(targets[idx].name, token, fail, hasIndex,
                                     rmOk, out.files, clone) IN
             /\ out' = [out EXCEPT !.files = r.files]
             /\ clone' = r.clone
             /\ cleanupFailed' = IF token /\ ~rmOk THEN cleanupFailed \cup {idx}
                                 ELSE cleanupFailed
             /\ results' = Append(results, r.result)
             /\ inFlight' = inFlight \ {idx}
             /\ openPages' = openPages + (IF r.leaked THEN 1 ELSE 0)
             /\ captured' = IF r.captured THEN captured \cup {idx} ELSE captured
             /\ written' = IF r.captured THEN Append(written, idx) ELSE written
             /\ IF r.rethrown
                THEN /\ Exit(1, "loop")
                     /\ idx' = idx
                ELSE /\ idx' = idx + 1
                     /\ pc' = IF idx = Len(targets) THEN "finally" ELSE "loop"
                     /\ UNCHANGED <<exitCode, cause>>
    /\ UNCHANGED <<variant, token, targets, browser, launches, closes,
                   page, hasNextPage, fetchFailed, rmMayFail,
                   pending, expected, requested, card, locale, prior>>

----------------------------------------------------------------------------
(* Teardown: the finally block of main / runGenerator *)

\* a finally block that leaves the browser running
CloseBrowserSkipped == UNCHANGED <<browser, closes, openPages>>

\* `if (browser) await browser.close()`; closing the browser closes every
\* page it still has
CloseBrowser ==
    IF browser = "open"
    THEN /\ browser' = "closed"
         /\ closes' = closes + 1
         /\ openPages' = 0
    ELSE UNCHANGED <<browser, closes, openPages>>

\* the members of require('fs').promises the scripts call; in part_002:24
\* the name fs is bound to this object
FsPromises == {"rm", "mkdir", "access"}

\* generate_preview_script.js:256-267, part_000:273-284: close the browser,
\* removeDirectory(CLONE_DIR); part_001:291-299: close the browser only.
\* main returns and the process ends with status 0.
Teardown ==
    /\ pc = "finally"
    /\ variant \in {"org", "static", "cred"}
    /\ CloseBrowser
    /\ \E ok \in RmOutcomes, kept \in SUBSET clone.files :
          clone' = IF variant = "cred" THEN clone
                   ELSE removeDirectory(clone, ok, kept)
    /\ Exit(0, "done")
    /\ UNCHANGED <<variant, token, out, targets, idx, results, launches,
                   tokenChecks, page, hasNextPage, fetchFailed,
                   cleanupFailed, captured, rmMayFail,
                   inFlight, written, pending, expected, requested, card, locale, prior>>

\* part_002:186-200: close the browser, then `fs.existsSync(CLONE_DIR)`.
\* fs is require('fs').promises, which has no existsSync: the call throws a
\* TypeError inside the finally block, main's promise is rejected with
\* nobody handling it and Node ends the process with status 1.
TeardownClone ==
    /\ pc = "finally"
    /\ variant = "cloneapi"
    /\ CloseBrowser
    /\ IF "existsSync" \in FsPromises
       THEN /\ \E ok \in RmOutcomes, kept \in SUBSET clone.files :
                  clone' = rm(clone, ok, kept)
            /\ IF clone'.exists THEN Exit(1, "teardown") ELSE Exit(0, "done")
       ELSE /\ clone' = clone
            /\ Exit(1, "teardown")
    /\ UNCHANGED <<variant, token, out, targets, idx, results, launches,
                   tokenChecks, page, hasNextPage, fetchFailed,
                   cleanupFailed, captured, rmMayFail,
                   inFlight, written, pending, expected, requested, card, locale, prior>>

\* runGenerator, part_002:430-441: close the browser, rimraf(temp-clone)
\* with its error swallowed
TeardownStaticClone ==
    /\ pc = "finally"
    /\ variant = "clonestatic"
    /\ CloseBrowser
    /\ \E ok \in RmOutcomes, kept \in SUBSET clone.files :
          clone' = rm(clone, ok, kept)
    /\ Exit(0, "done")
    /\ UNCHANGED <<variant, token, out, targets, idx, results, launches,
                   tokenChecks, page, hasNextPage, fetchFailed,
                   cleanupFailed, captured, rmMayFail,
                   inFlight, written, pending, expected, requested, card, locale, prior>>

----------------------------------------------------------------------------
(* A second run in the same directory *)

\* the script is started again after its first process has ended
\* (`main();` of generate_preview_script.js:270, `runGenerator();` of
\* part_002:444): the configuration, the credential and the environment
\* are those of the first run, previews and the transient directory are
\* as the first run left them, everything else starts afresh
Rerun ==
    /\ pc = "exited"
    /\ prior.run = 1
    /\ prior' = [run |-> 2, files |-> out.files, targets |-> targets,
                 results |-> results, captured |-> captured, cause |-> cause]
    /\ pc' = IF variant = "clonestatic" THEN "setup" ELSE "start"
    /\ exitCode' = 0
    /\ cause' = "none"
    /\ targets' = <<>>
    /\ idx' = 1
    /\ results' = <<>>
    /\ browser' = "none"
    /\ launches' = 0
    /\ closes' = 0
    /\ tokenChecks' = 0
    /\ page' = 1
    /\ hasNextPage' = TRUE
    /\ fetchFailed' = FALSE
    /\ cleanupFailed' = {}
    /\ captured' = {}
    /\ inFlight' = {}
    /\ written' = <<>>
    /\ pending' = FALSE
    /\ expected' = <<>>
    /\ requested' = <<>>
    /\ card' = NoCard
    /\ openPages' = 0
    /\ UNCHANGED <<variant, token, out, clone, rmMayFail, locale>>

\* the provider and the capture engine answer the second run as they
\* answered the first: the same list is resolved, each target ends as it
\* ended before and the process ends for the same reason
Replays ==
    prior.run = 2 =>
        /\ pc' \in {"launch", "loop", "finally"} => targets' = prior.targets
        /\ Len(results') <= Len(prior.results)
        /\ \A k \in 1..Len(results') :
              /\ results'[k] = prior.results[k]
              /\ (k \in captured') <=> (k \in prior.captured)
        /\ pc' = "finally" => results' = prior.results
        /\ pc' = "exited" => cause' = prior.cause

----------------------------------------------------------------------------

Next ==
    \/ CheckToken
    \/ Setup
    \/ SetupClone
    \/ SetupStaticClone
    \/ Resolve
    \/ FetchPage
    \/ FetchDetails
    \/ Launch
    \/ CallHandler
    \/ ProcessCard
    \/ ProcessCred
    \/ ProcessClone
    \/ ProcessThumbnail
    \/ Teardown
    \/ TeardownClone
    \/ TeardownStaticClone
    \/ CloneNeverReturns

Spec == Init /\ [][Next]_vars

\* the start of a run in whose environment no removal call fails
InitReliableRm == Init /\ ~rmMayFail

\* the runs in which no removal call fails
SpecReliableRm == InitReliableRm /\ [][Next]_vars

\* Node's event loop runs a continuation as soon as its promise has
\* settled: a step that can be taken is taken
SpecLive == Init /\ [][Next]_vars /\ WF_vars(Next)

\* a step of the first run, a step of the second run that replays the
\* outcomes of the first, or the start of the second run
NextRerun ==
    \/ Next /\ Replays
    \/ Rerun

\* two runs in succession, directory removal never failing
SpecRerun == InitReliableRm /\ [][NextRerun]_vars

TypeOK ==
    /\ variant \in Variants
    /\ pc \in {"start", "setup", "resolve", "launch", "loop", "finally", "exited",
              "hung"}
    /\ exitCode \in {0, 1}
    /\ browser \in {"none", "open", "closed"}
    /\ Len(results) <= Len(targets)
    /\ inFlight \subseteq 1..Len(targets)
    /\ locale \in Locales
    /\ openPages \in 0..Len(results)
    /\ prior.run \in {1, 2}
    /\ pending \in BOOLEAN
    /\ Len(written) <= Len(results)
    /\ Len(expected) <= MaxTargets
    /\ Len(requested) <= MaxPages

----------------------------------------------------------------------------
(* Properties *)

\* the process has ended
Ended == pc = "exited"

\* the processing loop was entered and ran over every target
LoopCompleted == launches > 0 /\ Len(results) = Len(targets)

\* the artifact of the k-th target is in the output directory
HasArtifact(k) == OutputPath(targets[k].name) \in out.files

\* C1: per-target failure isolation.  When a run that entered the
\* processing loop ends, every target of the list has been handled, whatever
\* happened to the others, and every target whose handler succeeded has its
\* artifact <name>.png in the output directory.
C1_FailureIsolation ==
    (Ended /\ launches > 0) =>
        /\ Len(results) = Len(targets)
        /\ \A k \in 1..Len(results) : results[k] = "ok" => HasArtifact(k)

\* C1 witness: a finished run in which a failed target stands between two
\* successful ones, both of which have their artifact
C1_Witness ==
    /\ Ended
    /\ \E i, j, k \in 1..Len(results) :
          /\ i < j /\ j < k
          /\ results[i] = "ok" /\ results[j] = "failed" /\ results[k] = "ok"
          /\ HasArtifact(i) /\ HasArtifact(k)

\* C2: the exit status is non-zero exactly when the run was aborted by a
\* setup-level failure (missing credential, unwritable output directory,
\* engine launch failure), and a run that completed the loop exits with 0.
C2_ExitStatus ==
    Ended =>
        /\ (exitCode # 0) <=> (cause \in {"credential", "setup", "launch"})
        /\ LoopCompleted => exitCode = 0

\* the resolver has returned an empty sequence and main went on from there
ResolvedEmpty ==
    /\ targets = <<>>
    /\ \/ pc \in {"launch", "loop", "finally"}
       \/ Ended /\ cause \in {"done", "teardown", "launch"}

\* C3: when the Target Resolver returns an empty sequence the run goes
\* straight to Finalizing (no launch, no processing), exits with code 0 and
\* the output directory holds no file when the process ends.
C3_EmptyResolution ==
    ResolvedEmpty =>
        /\ pc \in {"finally", "exited"}
        /\ launches = 0
        /\ Ended => (exitCode = 0 /\ out.files = {})

\* the resolution phase of main is over
Resolved == pc \in {"launch", "loop", "finally"}
            \/ (Ended /\ cause \notin {"credential", "setup"})

\* C4: a metadata request that ends in a non-success status or in a
\* transport failure yields the placeholder record and the target is still
\* rendered and captured: no identifier of the list is dropped or skipped.
C4_PlaceholderOnFetchFailure ==
    /\ (variant = "static" /\ Resolved) =>
          /\ Len(targets) = Len(TARGET_REPOS)
          /\ \A k \in 1..Len(targets) : targets[k].name = TARGET_REPOS[k]
          /\ fetchFailed =>
                \E k \in 1..Len(targets) : targets[k] = Placeholder(TARGET_REPOS[k])
    /\ variant = "cred" => \A k \in 1..Len(results) : results[k] # "skipped"

\* the listing failed outright: its first (or only) request failed
ListingFailed == variant \in {"org", "cred", "cloneapi"} /\ fetchFailed /\ page = 1

\* C5: when the listing call fails the resolver returns an empty sequence
\* without raising, and the run ends as a clean no-op: nothing is launched
\* or processed and the exit status is 0.
C5_ListingFailure ==
    (ListingFailed /\ Resolved) =>
        /\ targets = <<>>
        /\ launches = 0
        /\ results = <<>>
        /\ Ended => exitCode = 0

\* C6: without the credential the run aborts with a non-zero status during
\* startup, before the engine is launched or any target is processed, and
\* the credential is tested once per run, never once per target.
C6_CredentialCheckedOnce ==
    /\ ~token =>
          /\ launches = 0
          /\ results = <<>>
          /\ Ended => exitCode # 0
    /\ tokenChecks <= 1

\* C7: the browser is launched at most once per run and, in every run that
\* launched it, it has been closed exactly once when the process ends.
C7_BrowserScoped ==
    /\ launches <= 1
    /\ closes <= launches
    /\ (Ended /\ launches = 1) => (closes = 1 /\ browser = "closed")
    /\ launches = 0 => browser = "none"

\* C7 witness: a finished run with a failed target whose browser was
\* launched once and closed once
C7_Witness ==
    /\ Ended
    /\ launches = 1 /\ closes = 1 /\ browser = "closed"
    /\ \E k \in 1..Len(results) : results[k] = "failed"

\* C8: the run-level transient directory is gone once Initializing is over
\* (a stale one is removed there) and does not exist when the process ends
\* by completion, by the empty-target return or by a caught setup failure.
C8_TransientDirRemoved ==
    /\ pc \in {"resolve", "launch"} => ~clone.exists
    /\ (Ended /\ cause \in {"done", "teardown", "setup", "launch"}) => ~clone.exists

\* the clone directory of the k-th target exists
CloneLeft(k) == targets[k].name \in clone.files

C10_ExactArtifacts ==
    (Ended /\ exitCode = 0) =>
        out.files = {OutputPath(targets[k].name) : k \in captured}

\* C11: when launching the browser engine fails the run exits with a
\* non-zero status, no target has been processed and the output directory
\* holds no artifact file when the process ends.
C11_LaunchFailure ==
    (Ended /\ cause = "launch") =>
        /\ exitCode # 0
        /\ results = <<>>
        /\ out.files = {}

\* the k-th target ended in the failure handler and no other target of
\* the list has its name
FailedAlone(k) ==
    /\ results[k] = "failed"
    /\ \A j \in 1..Len(targets) : j # k => targets[j].name # targets[k].name

\* C12: in the scripts that clear the output directory at startup, a
\* target that ended in the per-target failure handler has no file at its
\* artifact path <id>.png when the run ends, whichever step failed.
C12_NoArtifactForFailedTarget ==
    (Ended /\ variant # "clonestatic") =>
        \A k \in 1..Len(results) : FailedAlone(k) => ~HasArtifact(k)

\* every field of the record has a value
Defined(record) == \A f \in DOMAIN record : record[f] # Null

\* a generateHtmlContent call has been made
Rendered == card.document # <<>>

\* the parts of the document of the latest generateHtmlContent call
RenderedParts == RenderParts(variant, card.record, locale)

\* C13: total defaulting.  Every field of a metadata record the Fetcher
\* returned for a successful response has a defined value, and the
\* renderer interpolates no undefined or null value.
C13_TotalDefaulting ==
    /\ variant \in {"org", "static"} =>
          \A k \in 1..Len(targets) : Defined(targets[k])
    /\ Rendered =>
          \A i \in 1..Len(RenderedParts) :
              RenderedParts[i].field # "template" => RenderedParts[i].text # Str(Null)

\* the characters that open markup, an entity or an attribute value
MarkupChars == {"<", ">", "&", "\"", "'"}

\* the interpolations that carry text of the metadata record
TextFields == {"name", "description", "language"}

\* C14: the rendered document holds no raw markup character at the
\* position of an interpolated text field (name, description, language).
C14_FieldsEscaped ==
    Rendered =>
        \A i \in 1..Len(RenderedParts) :
            RenderedParts[i].field \in TextFields =>
                \A j \in 1..Len(RenderedParts[i].text) :
                    RenderedParts[i].text[j] \notin MarkupChars

\* needle occurs in text as a run of consecutive pieces
Contains(text, needle) ==
    \E i \in 1..(Len(text) - Len(needle) + 1) :
        SubSeq(text, i, i + Len(needle) - 1) = needle

\* the star count of a record, under either of its two field names
StarsOf(record) ==
    IF "stars" \in DOMAIN record THEN record.stars ELSE record.stargazers_count

\* the descriptions of the model that do not fit in the lines the card shows
LongTexts == {LongMarkup}

\* C15: the rendered document contains the name, the star count and the
\* language of the record as literal substrings, and it does not contain
\* the full text of a description longer than the card shows.
C15_LiteralFields ==
    Rendered =>
        /\ card.record.name # Null => Contains(card.document, Chars(card.record.name))
        /\ StarsOf(card.record) # Null =>
              Contains(card.document, Chars(StarsOf(card.record)))
        /\ card.record.language # Null =>
              Contains(card.document, Chars(card.record.language))
        /\ card.record.description \in LongTexts =>
              ~Contains(card.document, Chars(card.record.description))

\* C16: the renderer is deterministic and reads nothing but its argument
\* and fixed constants: a call with the same record in a process started
\* in any environment returns the document of this call.
C16_RendererDeterministic ==
    Rendered =>
        \A loc \in Locales :
            Join(RenderParts(variant, card.record, loc)) = card.document

\* the scripts whose targets come from a listing request
Listing(v) == v \in {"org", "cred", "cloneapi"}

\* C17: the sequence the Target Resolver returns holds no identifier twice
\* and does not hold the catalog's own name.
C17_ResolverUnique ==
    (Listing(variant) /\ Resolved) =>
        /\ \A i, j \in 1..Len(targets) : i # j => targets[i].name # targets[j].name
        /\ \A i \in 1..Len(targets) : targets[i].name # REPO_NAME

\* C18: the organization listing follows pagination: once the resolver
\* has returned without a failed request, no page the provider announced
\* is left unrequested.
C18_FollowsPagination ==
    (variant \in {"org", "cloneapi"} /\ Resolved /\ ~fetchFailed) => ~pending

\* C19: the credential-scoped listing, as long as no request failed,
\* requests the pages 1, 2, ... in order, goes on exactly while the last
\* response carried rel="next", and has collected, in page order and
\* in-page order, exactly the names of the repositories owned by the target
\* organization other than the catalog.
C19_CredentialListing ==
    (variant = "cred" /\ ~fetchFailed) =>
        /\ requested = [k \in 1..Len(requested) |-> k]
        /\ page = Len(requested) + 1
        /\ targets = expected
        /\ (pc = "resolve" /\ requested # <<>>) => (pending /\ hasNextPage)
        /\ Resolved => ~pending

\* C19 witness: two pages were requested without a failure and the
\* resolver returned two different names
C19_Witness ==
    /\ variant = "cred" /\ ~fetchFailed /\ Resolved
    /\ requested = <<1, 2>>
    /\ Len(targets) = 2
    /\ targets[1].name # targets[2].name

\* C20: targets are processed one at a time in resolver order: at most
\* one handler is running, it is the handler of the target that follows
\* the handled ones, and the artifacts are written in the order of the
\* resolved sequence.
C20_Sequential ==
    /\ Cardinality(inFlight) <= 1
    /\ inFlight \subseteq {Len(results) + 1}
    /\ pc = "loop" => idx = Len(results) + 1
    /\ \A i, j \in 1..Len(written) : i < j => written[i] < written[j]
    /\ \A i \in 1..Len(written) : written[i] <= Len(results)

\* C20 witness: the third target is being processed after the first two
\* have been handled and have their artifacts, written in that order
C20_Witness ==
    /\ pc = "loop"
    /\ inFlight = {3}
    /\ Len(results) = 2
    /\ written = <<1, 2>>

\* C27: the browser is launched only after the output directory has been
\* set up and the resolution has returned a non-empty list; a run whose
\* resolved list is empty (in the static-list variant: no metadata record
\* was obtained) never launches the browser and so never closes it.
C27_LaunchAfterResolution ==
    /\ (pc = "launch" \/ launches > 0) => (out.exists /\ targets # <<>>)
    /\ (Resolved /\ targets = <<>>) => pc \in {"finally", "exited"}
    /\ targets = <<>> => (launches = 0 /\ closes = 0 /\ browser = "none")

\* C27 witness: the static-list variant ended after every metadata request
\* failed, with the output directory in place and no browser launched
C27_Witness ==
    /\ Ended /\ cause = "done"
    /\ variant = "static"
    /\ fetchFailed /\ targets = <<>>
    /\ out.exists
    /\ launches = 0 /\ closes = 0

\* the run has entered the processing loop: the browser is up and the
\* first target is next or under way
Processing == launches > 0

\* C23: Aborted is reachable only from setup: once the run has started
\* processing the first target no per-target failure leads to Aborted or
\* to a non-zero exit status; the run goes through Finalizing and ends in
\* Done.
C23_AbortOnlyFromSetup ==
    (Processing /\ Ended) =>
        (exitCode = 0 /\ cause = "done" /\ browser = "closed")

\* the scripts that cannot work without the credential: the three API
\* scripts exit without it, the static-list clone script declares it
\* required (part_002:295-296) and skips every target without it; the
\* listing-based clone script only warns (part_002:151-153)
NeedsCredential(v) == v # "cloneapi"

\* C24: when the required credential is absent the run exits before any
\* filesystem change: the output directory with the files of an earlier
\* run and the transient directory stay exactly as they were, no network
\* request is sent and the browser is not launched.
C24_NoEffectWithoutCredential ==
    [][(~token /\ NeedsCredential(variant)) =>
          /\ out' = out
          /\ clone' = clone
          /\ requested' = requested
          /\ launches' = launches
          /\ pc' = "exited" /\ exitCode' # 0]_vars

\* the credential-scoped listing ended in a failed request and main went on
CredListingFailed == variant = "cred" /\ fetchFailed /\ Resolved

\* the run has handled every target of the list
ProcessedAll == launches > 0 /\ Len(results) = Len(targets)

\* C25 as stated: when the request for page k > 1 fails after pages
\* 1..k-1 succeeded, fetchRepositoryNames returns exactly the names
\* collected from pages 1..k-1 in order, which is not the empty sequence,
\* and the run processes them; only a failure on page 1 produces the empty
\* sequence.
C25_PartialListing ==
    CredListingFailed =>
        /\ targets = expected
        /\ (targets = <<>>) <=> (page = 1)
        /\ (targets # <<>> /\ Ended /\ cause = "done") => ProcessedAll

\* C25 amended: the names collected from pages 1..k-1 are returned in
\* order and processed; they are empty when the failure is on page 1 and
\* also when the pages before the failed one held no repository of the
\* organization other than the catalog.
C25_PartialListingKept ==
    CredListingFailed =>
        /\ targets = expected
        /\ page = 1 => targets = <<>>
        /\ (targets # <<>> /\ Ended /\ cause = "done") => ProcessedAll

\* C25 witness: page 2 failed, the names of page 1 were kept and the run
\* processed each of them and captured at least one
C25_Witness ==
    /\ CredListingFailed /\ page = 2
    /\ targets # <<>> /\ targets = expected
    /\ Ended /\ ProcessedAll
    /\ written # <<>>

\* C26: every page opened for a target is closed before the processing of
\* the next target begins, on the success path and on every failure path:
\* no page is open between targets or after the loop, and a running
\* handler has at most its own page.
C26_PagesClosed ==
    /\ (pc \in {"loop", "finally"} /\ inFlight = {}) => openPages = 0
    /\ openPages + Cardinality(inFlight) <= 1

\* C22: every run eventually terminates, in Done or in Aborted, even when
\* the provider or a page never responds: each suspending operation of a
\* target completes or times out, the timeout is that target's failure
\* and the run goes on to the next target.
C22_Terminates == <>Ended

\* C21: running the pipeline twice in succession in the same directory
\* with the same configuration and the same provider and capture outcomes
\* leaves, after the second run, the set of artifact files the first run
\* left, and no transient working directory exists after either run
\* (stated for the runs that went through their finally block).
C21_Idempotent ==
    (Ended /\ cause \in {"done", "teardown"}) =>
        /\ ~clone.exists
        /\ prior.run = 2 => out.files = prior.files

====
